---- MODULE Spec2Model ----
(***************************************************************************)
(* Model of src/app.js: a Slack Bolt application that keeps a per-user      *)
(* selection in the in-memory map userContexts, renders the home tab, opens *)
(* a query modal and forwards the query to a chat-completion API.           *)
(*                                                                          *)
(* Every handler is an async function: it runs synchronously up to its next *)
(* `await`, where it suspends until the awaited promise settles.  A task    *)
(* record holds one running handler; one action of the model is one         *)
(* synchronous segment of a handler.                                        *)
(*                                                                          *)
(* Strings built with template literals are modelled as sequences of their  *)
(* parts ("Text"), so that concatenation is \o and "contains" is membership *)
(* of a part.  The Japanese display strings of the source are written in    *)
(* ASCII transliteration.                                                   *)
(***************************************************************************)
EXTENDS Integers, Sequences, FiniteSets, TLC

VARIABLES
    userContexts,   \* the Map of line 66: user id -> context object
    tasks,          \* the running handler invocations (async call frames)
    homeViews,      \* per user, the argument of the latest views.publish call issued
    modals,         \* per user, the private_metadata of the modal the platform shows
    events,         \* number of platform events dispatched so far
    env,            \* process.env, for the four required variables
    process,        \* how far the process has come: its phase and its exit code
    diagnostics     \* the lines written with console.error during startup

vars == <<userContexts, tasks, homeViews, modals, events, env, process, diagnostics>>

\* the state of startup, which no handler touches
boot == <<env, process, diagnostics>>

----------------------------------------------------------------------------
(* Bounds of the model *)

MaxEvents == 4        \* platform events dispatched in one behaviour
MaxInterleaved == 2   \* platform events dispatched in one behaviour with interleaving
MaxInFlight == 2      \* handler invocations suspended at the same time

----------------------------------------------------------------------------
(* JavaScript values *)

Undefined == "<undefined>"      \* the value undefined
Null == "<null>"                \* the value null

\* !v for the values that occur here (strings, undefined, null)
Falsy(v) == v \in {Undefined, Null, ""}

\* v || ''
OrEmpty(v) == IF Falsy(v) THEN "" ELSE v

\* ${v} inside a template literal
Interp(v) == IF v = Undefined THEN "undefined" ELSE IF v = Null THEN "null" ELSE v

\* the parts of a Text, or the elements of any sequence
Range(seq) == {seq[i] : i \in DOMAIN seq}

\* obj[key] on a plain object
Prop(obj, key) == IF key \in DOMAIN obj THEN obj[key] ELSE Undefined

EmptyObject == [k \in {} |-> Undefined]

\* { ...a, ...b }
ObjectSpread(a, b) ==
    [k \in DOMAIN a \cup DOMAIN b |-> IF k \in DOMAIN b THEN b[k] ELSE a[k]]

----------------------------------------------------------------------------
(* Fixed tables, lines 45-63 *)

INDUSTRIES ==
    [manufacturing |-> "Seizougyou", construction |-> "Kensetsugyou",
     retail |-> "Kourigyou", agriculture |-> "Nougyou",
     service |-> "Service-gyou", professional |-> "Shigyou",
     medical |-> "Iryou", restaurant |-> "Inshokugyou"]

\* Object.entries(INDUSTRIES): the keys in their insertion order
IndustryKeys ==
    <<"manufacturing", "construction", "retail", "agriculture",
      "service", "professional", "medical", "restaurant">>

CATEGORIES ==
    [accounting |-> "Keiri", hr |-> "Jinji", admin |-> "Soumu",
     sales |-> "Eigyou-shien"]

\* Object.keys(CATEGORIES): the keys in their insertion order
CategoryKeys == <<"accounting", "hr", "admin", "sales">>

FallbackText == "Moushiwake arimasen. Genzai AI no outou ni mondai ga hassei shiteimasu."

----------------------------------------------------------------------------
(* The environment: users and what they type *)

Users == {"U1", "U2"}
Queries == {"query one", "query two"}

----------------------------------------------------------------------------
(* JSON text, as the sequence of its tokens *)

Punct(c) == [kind |-> "punct", text |-> c]
Str(s) == [kind |-> "string", text |-> s]
Lit(w) == [kind |-> "literal", text |-> w]

JSONValue(v) == IF v = Null THEN Lit("null") ELSE Str(v)

\* the members of obj in key order; a member whose value is undefined is left out
RECURSIVE StringifyMembers(_, _, _)
StringifyMembers(obj, keys, first) ==
    IF keys = <<>> THEN <<>>
    ELSE LET k == Head(keys)
             v == Prop(obj, k)
         IN IF v = Undefined
            THEN StringifyMembers(obj, Tail(keys), first)
            ELSE (IF first THEN <<>> ELSE <<Punct(",")>>)
                 \o <<Str(k), Punct(":"), JSONValue(v)>>
                 \o StringifyMembers(obj, Tail(keys), FALSE)

\* JSON.stringify of a plain object whose own keys, in order, are keys
JSONStringify(obj, keys) ==
    <<Punct("{")>> \o StringifyMembers(obj, keys, TRUE) \o <<Punct("}")>>

\* results of JSON.parse: a thrown SyntaxError, or the parsed value
ParseError == [kind |-> "error", members |-> EmptyObject]
ParsedNull == [kind |-> "null", members |-> EmptyObject]
ParsedString == [kind |-> "string", members |-> EmptyObject]
ParsedObject(m) == [kind |-> "object", members |-> m]

\* toks[i] must start a member: key, colon, value, then a comma or the closing brace
RECURSIVE ParseMembers(_, _, _)
ParseMembers(toks, i, acc) ==
    IF i + 3 > Len(toks) THEN ParseError
    ELSE IF \/ toks[i].kind # "string"
            \/ toks[i + 1] # Punct(":")
            \/ toks[i + 2].kind = "punct"
            \/ (toks[i + 2].kind = "literal" /\ toks[i + 2].text # "null")
         THEN ParseError
    ELSE LET v == IF toks[i + 2].kind = "literal" THEN Null ELSE toks[i + 2].text
             acc2 == ObjectSpread(acc, [k \in {toks[i].text} |-> v])
         IN IF toks[i + 3] = Punct("}")
            THEN (IF i + 3 = Len(toks) THEN ParsedObject(acc2) ELSE ParseError)
            ELSE IF toks[i + 3] = Punct(",")
            THEN ParseMembers(toks, i + 4, acc2)
            ELSE ParseError

\* JSON.parse, for texts that are a string, null, or an object of strings and nulls
JSONParse(toks) ==
    IF toks = <<>> THEN ParseError
    ELSE IF toks = <<Lit("null")>> THEN ParsedNull
    ELSE IF Len(toks) = 1 /\ toks[1].kind = "string" THEN ParsedString
    ELSE IF toks[1] # Punct("{") THEN ParseError
    ELSE IF toks = <<Punct("{"), Punct("}")>> THEN ParsedObject(EmptyObject)
    ELSE ParseMembers(toks, 2, EmptyObject)

----------------------------------------------------------------------------
(* Block Kit values.  text fields hold a Text: the sequence of the parts of  *)
(* the string.                                                               *)

PlainText(t) == [type |-> "plain_text", text |-> <<t>>]
Mrkdwn(parts) == [type |-> "mrkdwn", text |-> parts]
NoText == [type |-> "none", text |-> <<>>]

Block(type, text, elements) == [type |-> type, text |-> text, elements |-> elements]

\* Object.entries(INDUSTRIES).map(...), lines 123-130 and 306-313
IndustryOptions ==
    [i \in 1..Len(IndustryKeys) |->
        [text |-> PlainText(INDUSTRIES[IndustryKeys[i]]), value |-> IndustryKeys[i]]]

\* the static_select of lines 115-131 and 298-314
IndustrySelect(actionId) ==
    [type |-> "static_select", action_id |-> actionId,
     text |-> PlainText("Gyoushu wo sentaku"), value |-> "",
     options |-> IndustryOptions]

\* Object.entries(CATEGORIES).map(...), lines 147-156
CategoryButtons ==
    [i \in 1..Len(CategoryKeys) |->
        [type |-> "button", action_id |-> "category_" \o CategoryKeys[i],
         text |-> PlainText(CATEGORIES[CategoryKeys[i]]),
         value |-> CategoryKeys[i], options |-> <<>>]]

\* the three blocks every home view starts with, lines 96-134
HomeBaseBlocks ==
    <<Block("header", PlainText("Softdoing AI board"), <<>>),
      Block("section", Mrkdwn(<<"Gyoumu kouritsuka no tame no AI assistant e youkoso!\nGyoushu wo sentaku shite hajimemashou.">>), <<>>),
      Block("actions", NoText, <<IndustrySelect("select_industry")>>)>>

\* HomeCategoryBlocks with the raw industry value in the label instead of its display name
HomeCategoryBlocksRawValue(userContext) ==
    <<Block("section",
            Mrkdwn(<<"*Sentaku sareta gyoushu: ", Interp(Prop(userContext, "industry")),
                     "*\nIka no category kara sentaku shite kudasai:">>),
            <<>>),
      Block("actions", NoText, CategoryButtons)>>

\* the two blocks pushed when the context has an industry, lines 136-159
HomeCategoryBlocks(userContext) ==
    <<Block("section",
            Mrkdwn(<<"*Sentaku sareta gyoushu: ",
                     Interp(Prop(INDUSTRIES, Prop(userContext, "industry"))),
                     "*\nIka no category kara sentaku shite kudasai:">>),
            <<>>),
      Block("actions", NoText, CategoryButtons)>>

\* HomeBlocks without the test of line 136
HomeBlocksAlwaysCategories(userContext) ==
    HomeBaseBlocks \o HomeCategoryBlocks(userContext)

\* the blocks updateHomeTab builds from a context object, lines 96-159
HomeBlocks(userContext) ==
    IF Falsy(Prop(userContext, "industry"))
    THEN HomeBaseBlocks
    ELSE HomeBaseBlocks \o HomeCategoryBlocks(userContext)

\* the argument of app.client.views.publish, lines 161-167
HomeView(userId, userContext) ==
    [user_id |-> userId, view |-> [type |-> "home", blocks |-> HomeBlocks(userContext)]]

----------------------------------------------------------------------------
(* The completion client, lines 69-89 *)

\* the argument of openai.chat.completions.create, lines 71-82
CompletionRequest(prompt, industry, category) ==
    [model |-> "gpt-4",
     messages |->
        <<[role |-> "system",
           content |-> <<"Anata wa ", OrEmpty(industry), " muke no ", OrEmpty(category),
                         " senmon assistant desu.\nSenmonteki katsu jitsuyouteki na advice wo teikyou shite kudasai.">>],
          [role |-> "user", content |-> <<prompt>>]>>,
     temperature |-> "0.7"]

NoRequest == [model |-> "", messages |-> <<>>, temperature |-> ""]

\* what the awaited create call can settle to: a rejection, or a response body
\* with no choice, with a text, or whose message carries no content
ApiOutcomes ==
    {[settled |-> "rejected", choices |-> <<>>],
     [settled |-> "resolved", choices |-> <<>>],
     [settled |-> "resolved", choices |-> <<[message |-> [content |-> "AI answer"]]>>],
     [settled |-> "resolved", choices |-> <<[message |-> [content |-> Undefined]]>>]}

NoOutcome == [settled |-> "pending", choices |-> <<>>]

\* the value generateAIResponse returns once the call has settled, lines 84-88:
\* reading choices[0].message of a response without choices throws into the catch
GenerateAIResponse(outcome) ==
    IF outcome.settled = "rejected" THEN FallbackText
    ELSE IF Len(outcome.choices) = 0 THEN FallbackText
    ELSE outcome.choices[1].message.content

\* whether generateAIResponse went through its catch block (and logged), lines 85-86
CompletionFailed(outcome) ==
    outcome.settled = "rejected" \/ Len(outcome.choices) = 0

----------------------------------------------------------------------------
(* Arguments of the platform calls *)

\* ModalView with the category's display label stored in the metadata instead of its key
ModalViewStoresLabel(category, userContext) ==
    [type |-> "modal", callback_id |-> "modal_submit",
     private_metadata |->
        JSONStringify([industry |-> Prop(userContext, "industry"),
                       category |-> Prop(CATEGORIES, category)],
                      <<"industry", "category">>)]

\* client.views.open, lines 201-246
ModalView(category, userContext) ==
    [type |-> "modal", callback_id |-> "modal_submit",
     title |-> PlainText(Interp(Prop(CATEGORIES, category)) \o " support"),
     submit |-> PlainText("Soushin"),
     close |-> PlainText("Cancel"),
     blocks |-> <<[type |-> "input", block_id |-> "query_block",
                   element |-> [type |-> "plain_text_input", action_id |-> "query_input",
                                multiline |-> TRUE,
                                placeholder |-> PlainText("Go-shitsumon ya irai naiyou wo nyuuryoku shite kudasai")],
                   label |-> PlainText("Shitsumon naiyou")]>>,
     private_metadata |->
        JSONStringify([industry |-> Prop(userContext, "industry"), category |-> category],
                      <<"industry", "category">>)]

\* AnswerMessage with the raw keys in the heading instead of the display labels
AnswerMessageRawKeys(userId, industry, category, response) ==
    [channel |-> userId,
     text |-> response,
     blocks |-> <<Block("section",
                        Mrkdwn(<<"*", Interp(industry), " - ", Interp(category),
                                 " ni kansuru kaitou*\n\n", Interp(response)>>),
                        <<>>)>>]

\* client.chat.postMessage, lines 264-276
AnswerMessage(userId, industry, category, response) ==
    [channel |-> userId,
     text |-> response,
     blocks |-> <<Block("section",
                        Mrkdwn(<<"*", Interp(Prop(INDUSTRIES, industry)), " - ",
                                 Interp(Prop(CATEGORIES, category)),
                                 " ni kansuru kaitou*\n\n", Interp(response)>>),
                        <<>>)>>]

\* respond, lines 287-322
CommandResponse ==
    [response_type |-> "ephemeral",
     blocks |-> <<Block("section",
                        Mrkdwn(<<"AI board wo kidou shimashita. Ika kara gyoushu wo sentaku shite kudasai:">>),
                        <<>>),
                  Block("actions", NoText, <<IndustrySelect("command_select_industry")>>)>>]

Call(api, args) == [api |-> api, args |-> args]
NoCall == Call("none", <<>>)

----------------------------------------------------------------------------
(* The session store, line 66 *)

EmptyMap == [u \in {} |-> EmptyObject]

MapHas(map, key) == key \in DOMAIN map

\* userContexts.get(key) || {}  (also the operand of a spread: ...undefined adds nothing)
MapGetOrEmpty(map, key) == IF MapHas(map, key) THEN map[key] ELSE EmptyObject

MapSet(map, key, value) ==
    [k \in DOMAIN map \cup {key} |-> IF k = key THEN value ELSE map[k]]

\* SetIndustry that treats a second selection of the same value as a deselection
SetIndustryToggles(map, userId, selectedIndustry) ==
    IF MapHas(map, userId) /\ Prop(map[userId], "industry") = selectedIndustry
    THEN MapSet(map, userId, EmptyObject)
    ELSE MapSet(map, userId,
                ObjectSpread(MapGetOrEmpty(map, userId), [industry |-> selectedIndustry]))

\* SetIndustry on a store that keeps one context for all users: the selection is
\* written into every record
SetIndustryShared(map, userId, selectedIndustry) ==
    [k \in DOMAIN map \cup {userId} |->
        ObjectSpread(MapGetOrEmpty(map, k), [industry |-> selectedIndustry])]

\* SetIndustry with the operands of the spread exchanged: what the record already
\* holds wins over the new selection
SetIndustryOldWins(map, userId, selectedIndustry) ==
    MapSet(map, userId,
           ObjectSpread([industry |-> selectedIndustry], MapGetOrEmpty(map, userId)))

\* lines 181-184: userContexts.set(userId, { ...userContexts.get(userId), industry })
SetIndustry(map, userId, selectedIndustry) ==
    MapSet(map, userId,
           ObjectSpread(MapGetOrEmpty(map, userId), [industry |-> selectedIndustry]))

\* line 199: !userContext || !userContext.industry
NoIndustry(map, userId) ==
    ~MapHas(map, userId) \/ Falsy(Prop(map[userId], "industry"))

----------------------------------------------------------------------------
(* Handler invocations *)

IdleTask ==
    [kind |-> "idle", pc |-> "idle", user |-> "", industry |-> "", category |-> "",
     metadata |-> <<>>, query |-> "", effects |-> <<>>, errors |-> <<>>,
     request |-> NoRequest, completion |-> NoOutcome, response |-> "", call |-> NoCall, uncaught |-> FALSE]

\* a handler entered for an event of the given user; no statement has run yet
NewTask(kind, user) == [IdleTask EXCEPT !.kind = kind, !.pc = "entered", !.user = user]

\* Acked with the call to ack() left out
NeverAcked(task) == [task EXCEPT !.pc = "await_ack"]

\* await ack(): the call is issued and the handler suspends, lines 176, 196, 256, 285
Acked(task) == [task EXCEPT !.pc = "await_ack", !.effects = Append(@, "ack")]

\* a catch block that logs and throws the error on to the caller
CaughtRethrows(task, prefix) ==
    [task EXCEPT !.pc = "done", !.errors = Append(@, prefix), !.uncaught = TRUE]

\* the catch block of a handler: console.error(prefix, error), then the handler returns
Caught(task, prefix) == [task EXCEPT !.pc = "done", !.errors = Append(@, prefix)]

\* updateHomeTab that renders from a fresh default context instead of the stored one
PublishIssuedFromDefault(task, map) ==
    [task EXCEPT !.pc = "await_publish",
                 !.effects = @ \o <<"session_read", "publish">>,
                 !.call = Call("views.publish", HomeView(task.user, EmptyObject))]

\* the synchronous head of updateHomeTab, lines 94-167: read the context, build the
\* blocks, issue views.publish and suspend on it
PublishIssued(task, map) ==
    [task EXCEPT !.pc = "await_publish",
                 !.effects = @ \o <<"session_read", "publish">>,
                 !.call = Call("views.publish", HomeView(task.user, MapGetOrEmpty(map, task.user)))]

NoHomeView == [user_id |-> "", view |-> [type |-> "none", blocks |-> <<>>]]
NoModal == [open |-> FALSE, private_metadata |-> <<>>]

\* private_metadata a submit can carry that no category action of this program wrote:
\* an empty text, a truncated object, the text null, an object without members
ForeignMetadata ==
    {<<>>,
     <<Punct("{"), Str("industry"), Punct(":")>>,
     <<Lit("null")>>,
     <<Punct("{"), Punct("}")>>}

FreeSlots == {t \in DOMAIN tasks : tasks[t].kind = "idle"}

\* a new event is dispatched into the lowest free slot
CanDispatch(t) ==
    /\ events < MaxEvents
    /\ t \in FreeSlots
    /\ \A s \in FreeSlots : t <= s

\* lines 6-11
requiredEnvVars ==
    <<"SLACK_BOT_TOKEN", "SLACK_SIGNING_SECRET", "SLACK_APP_TOKEN", "OPENAI_API_KEY">>

\* what process.env can hold for a variable: nothing, an empty string, or a value
EnvValues == {Undefined, "", "secret"}

\* a filter that stops at the first missing variable
MissingEnvVarsFirstOnly(e) ==
    LET missing == SelectSeq(requiredEnvVars, LAMBDA name : Falsy(e[name]))
    IN SubSeq(missing, 1, 1)

\* line 13: requiredEnvVars.filter(envVar => !process.env[envVar])
MissingEnvVars(e) == SelectSeq(requiredEnvVars, LAMBDA name : Falsy(e[name]))

\* lines 16-17: the heading, then one line per missing variable
MissingDiagnostic(missing) ==
    <<"Error: Missing required environment variables:">>
    \o [i \in 1..Len(missing) |-> "- " \o missing[i]]

Process(phase, exitCode) == [phase |-> phase, exitCode |-> exitCode]

Init ==
    /\ userContexts = EmptyMap
    /\ tasks = [t \in 1..MaxInFlight |-> IdleTask]
    /\ homeViews = [u \in Users |-> NoHomeView]
    /\ modals = [u \in Users |-> NoModal]
    /\ events = 0
    /\ env \in [Range(requiredEnvVars) -> EnvValues]
    /\ process = Process("loading", "none")
    /\ diagnostics = <<>>

----------------------------------------------------------------------------
(* Startup, lines 13-19 and 343-351 *)

\* lines 13-19, then (nothing missing) the module body down to the call of
\* app.start() on line 345, on which the start-up function suspends
ValidateEnv ==
    /\ process.phase = "loading"
    /\ LET missing == MissingEnvVars(env)
       IN IF Len(missing) > 0
          THEN /\ diagnostics' = MissingDiagnostic(missing)
               /\ process' = Process("exited", "1")
          ELSE /\ diagnostics' = diagnostics
               /\ process' = Process("starting", "none")
    /\ UNCHANGED <<userContexts, tasks, homeViews, modals, events, env>>

\* lines 345-350: the awaited app.start() settles
StartSettled(ok) ==
    /\ process.phase = "starting"
    /\ IF ok
       THEN /\ process' = Process("running", "none")
            /\ diagnostics' = diagnostics
       ELSE /\ process' = Process("exited", "1")
            /\ diagnostics' = Append(diagnostics, "Error starting Bolt app:")
    /\ UNCHANGED <<userContexts, tasks, homeViews, modals, events, env>>

Startup ==
    \/ ValidateEnv
    \/ \E ok \in BOOLEAN : StartSettled(ok)

----------------------------------------------------------------------------
(* app.action('select_industry'), lines 174-190 *)

SelectIndustryStart(t, u, v) ==
    /\ CanDispatch(t)
    /\ tasks' = [tasks EXCEPT ![t] =
                    [Acked(NewTask("select_industry", u)) EXCEPT !.industry = v]]
    /\ events' = events + 1
    /\ UNCHANGED <<userContexts, homeViews, modals>>

\* lines 178-186, up to the await inside updateHomeTab
SelectIndustryWrite(task, map) ==
    PublishIssued([task EXCEPT !.effects = @ \o <<"session_read", "session_write">>], map)

SelectIndustryAfterAck(t, ok) ==
    /\ tasks[t].kind = "select_industry"
    /\ tasks[t].pc = "await_ack"
    /\ IF ok
       THEN LET written == SetIndustry(userContexts, tasks[t].user, tasks[t].industry)
                next == SelectIndustryWrite(tasks[t], written)
            IN /\ userContexts' = written
               /\ tasks' = [tasks EXCEPT ![t] = next]
               /\ homeViews' = [homeViews EXCEPT ![tasks[t].user] = next.call.args]
       ELSE /\ tasks' = [tasks EXCEPT ![t] = Caught(@, "Error handling industry selection:")]
            /\ UNCHANGED <<userContexts, homeViews>>
    /\ UNCHANGED <<modals, events>>

----------------------------------------------------------------------------
(* app.event('app_home_opened'), lines 329-335 *)

\* a home-opened handler that stores the default record it rendered from
HomeOpenedCreatesEntry(t, u) ==
    /\ CanDispatch(t)
    /\ LET next == PublishIssued(NewTask("app_home_opened", u), userContexts)
       IN /\ tasks' = [tasks EXCEPT ![t] = next]
          /\ homeViews' = [homeViews EXCEPT ![u] = next.call.args]
    /\ events' = events + 1
    /\ userContexts' = MapSet(userContexts, u, MapGetOrEmpty(userContexts, u))
    /\ UNCHANGED modals

HomeOpened(t, u) ==
    /\ CanDispatch(t)
    /\ LET next == PublishIssued(NewTask("app_home_opened", u), userContexts)
       IN /\ tasks' = [tasks EXCEPT ![t] = next]
          /\ homeViews' = [homeViews EXCEPT ![u] = next.call.args]
    /\ events' = events + 1
    /\ UNCHANGED <<userContexts, modals>>

\* the awaited views.publish settles, lines 161-170; a rejection is caught and logged
\* inside updateHomeTab, and the caller's await then resumes and the handler returns
PublishSettled(t, ok) ==
    /\ tasks[t].pc = "await_publish"
    /\ tasks' = [tasks EXCEPT ![t] =
                    IF ok THEN [@ EXCEPT !.pc = "done"]
                    ELSE Caught(@, "Error updating home tab:")]
    /\ UNCHANGED <<userContexts, homeViews, modals, events>>

----------------------------------------------------------------------------
(* app.action(`category_${category}`), lines 193-251 *)

CategoryStart(t, u, c) ==
    /\ CanDispatch(t)
    /\ tasks' = [tasks EXCEPT ![t] = [Acked(NewTask("category", u)) EXCEPT !.category = c]]
    /\ events' = events + 1
    /\ UNCHANGED <<userContexts, homeViews, modals>>

\* CategoryOpen without the guard of line 199
CategoryOpenUnguarded(task, map) ==
    [task EXCEPT !.pc = "await_open",
                 !.effects = @ \o <<"session_read", "open">>,
                 !.call = Call("views.open",
                               ModalView(task.category, MapGetOrEmpty(map, task.user)))]

\* lines 198-246: return without an industry, else issue views.open and suspend
CategoryOpen(task, map) ==
    IF NoIndustry(map, task.user)
    THEN [task EXCEPT !.pc = "done", !.effects = Append(@, "session_read")]
    ELSE [task EXCEPT !.pc = "await_open",
                      !.effects = @ \o <<"session_read", "open">>,
                      !.call = Call("views.open", ModalView(task.category, map[task.user]))]

\* a category handler that also records the chosen category in the session
CategoryAfterAckStoresCategory(t, ok) ==
    /\ tasks[t].kind = "category"
    /\ tasks[t].pc = "await_ack"
    /\ tasks' = [tasks EXCEPT ![t] =
                    IF ok THEN CategoryOpen(@, userContexts)
                    ELSE Caught(@, "Error opening modal:")]
    /\ userContexts' =
          IF ok /\ ~NoIndustry(userContexts, tasks[t].user)
          THEN MapSet(userContexts, tasks[t].user,
                      ObjectSpread(userContexts[tasks[t].user],
                                   [category |-> tasks[t].category]))
          ELSE userContexts
    /\ UNCHANGED <<homeViews, modals, events>>

CategoryAfterAck(t, ok) ==
    /\ tasks[t].kind = "category"
    /\ tasks[t].pc = "await_ack"
    /\ tasks' = [tasks EXCEPT ![t] =
                    IF ok THEN CategoryOpen(@, userContexts)
                    ELSE Caught(@, "Error opening modal:")]
    /\ UNCHANGED <<userContexts, homeViews, modals, events>>

\* the awaited views.open settles; on success the platform shows the modal
OpenSettled(t, ok) ==
    /\ tasks[t].pc = "await_open"
    /\ IF ok
       THEN /\ tasks' = [tasks EXCEPT ![t].pc = "done"]
            /\ modals' = [modals EXCEPT ![tasks[t].user] =
                            [open |-> TRUE,
                             private_metadata |-> tasks[t].call.args.private_metadata]]
       ELSE /\ tasks' = [tasks EXCEPT ![t] = Caught(@, "Error opening modal:")]
            /\ UNCHANGED modals
    /\ UNCHANGED <<userContexts, homeViews, events>>

----------------------------------------------------------------------------
(* app.view('modal_submit'), lines 254-280 *)

\* the metadata a submit by user u can carry: that of the modal shown to u, or foreign
SubmittableMetadata(u) ==
    (IF modals[u].open THEN {modals[u].private_metadata} ELSE {}) \cup ForeignMetadata

ModalSubmitStart(t, u, meta, q) ==
    /\ CanDispatch(t)
    /\ meta \in SubmittableMetadata(u)
    /\ tasks' = [tasks EXCEPT ![t] =
                    [Acked(NewTask("modal_submit", u)) EXCEPT !.metadata = meta, !.query = q]]
    /\ modals' = IF modals[u].open /\ meta = modals[u].private_metadata
                 THEN [modals EXCEPT ![u] = NoModal]
                 ELSE modals
    /\ events' = events + 1
    /\ UNCHANGED <<userContexts, homeViews>>

\* ModalSubmitParse that takes a metadata it cannot read for an empty record
ModalSubmitParseLenient(task) ==
    LET parsed == JSONParse(task.metadata)
        industry == Prop(parsed.members, "industry")
        category == Prop(parsed.members, "category")
    IN [task EXCEPT !.pc = "await_completion",
                    !.industry = industry,
                    !.category = category,
                    !.effects = Append(@, "complete"),
                    !.request = CompletionRequest(task.query,
                                                  Prop(INDUSTRIES, industry),
                                                  Prop(CATEGORIES, category))]

\* a submit that takes the industry from the session store instead of the metadata
ModalSubmitParseFromSession(task) ==
    LET parsed == JSONParse(task.metadata)
    IN IF parsed.kind \in {"error", "null"}
       THEN Caught(task, "Error handling modal submission:")
       ELSE LET industry == Prop(MapGetOrEmpty(userContexts, task.user), "industry")
                category == Prop(parsed.members, "category")
            IN [task EXCEPT !.pc = "await_completion",
                            !.industry = industry,
                            !.category = category,
                            !.effects = Append(@, "session_read") \o <<"complete">>,
                            !.request = CompletionRequest(task.query,
                                                          Prop(INDUSTRIES, industry),
                                                          Prop(CATEGORIES, category))]

\* lines 258-262, up to the await inside generateAIResponse: JSON.parse throws on a
\* text that is no JSON, destructuring throws on null; otherwise the request is issued
ModalSubmitParse(task) ==
    LET parsed == JSONParse(task.metadata)
    IN IF parsed.kind \in {"error", "null"}
       THEN Caught(task, "Error handling modal submission:")
       ELSE LET industry == Prop(parsed.members, "industry")
                category == Prop(parsed.members, "category")
            IN [task EXCEPT !.pc = "await_completion",
                            !.industry = industry,
                            !.category = category,
                            !.effects = Append(@, "complete"),
                            !.request = CompletionRequest(task.query,
                                                          Prop(INDUSTRIES, industry),
                                                          Prop(CATEGORIES, category))]

ModalSubmitAfterAck(t, ok) ==
    /\ tasks[t].kind = "modal_submit"
    /\ tasks[t].pc = "await_ack"
    /\ tasks' = [tasks EXCEPT ![t] =
                    IF ok THEN ModalSubmitParse(@)
                    ELSE Caught(@, "Error handling modal submission:")]
    /\ UNCHANGED <<userContexts, homeViews, modals, events>>

\* a submit that calls the completion API a second time when the first call failed
ModalSubmitPostRetries(task, outcome) ==
    IF CompletionFailed(outcome) /\ Len(task.errors) = 0
    THEN [task EXCEPT !.errors = Append(@, "OpenAI API Error:"),
                      !.effects = Append(@, "complete")]
    ELSE LET response == GenerateAIResponse(outcome)
         IN [task EXCEPT !.pc = "await_post",
                         !.completion = outcome,
                         !.response = response,
                         !.effects = Append(@, "post"),
                         !.call = Call("chat.postMessage",
                                       AnswerMessage(task.user, task.industry,
                                                     task.category, response))]

\* lines 84-88 and 262-276: the create call settles, generateAIResponse returns, and
\* chat.postMessage is issued
ModalSubmitPost(task, outcome) ==
    LET response == GenerateAIResponse(outcome)
    IN [task EXCEPT !.pc = "await_post",
                    !.completion = outcome,
                    !.response = response,
                    !.errors = IF CompletionFailed(outcome)
                               THEN Append(@, "OpenAI API Error:") ELSE @,
                    !.effects = Append(@, "post"),
                    !.call = Call("chat.postMessage",
                                  AnswerMessage(task.user, task.industry, task.category,
                                                response))]

CompletionSettled(t, outcome) ==
    /\ tasks[t].pc = "await_completion"
    /\ tasks' = [tasks EXCEPT ![t] = ModalSubmitPost(@, outcome)]
    /\ UNCHANGED <<userContexts, homeViews, modals, events>>

PostSettled(t, ok) ==
    /\ tasks[t].pc = "await_post"
    /\ tasks' = [tasks EXCEPT ![t] =
                    IF ok THEN [@ EXCEPT !.pc = "done"]
                    ELSE Caught(@, "Error handling modal submission:")]
    /\ UNCHANGED <<userContexts, homeViews, modals, events>>

----------------------------------------------------------------------------
(* app.command('/ai-board'), lines 283-326 *)

CommandStart(t, u) ==
    /\ CanDispatch(t)
    /\ tasks' = [tasks EXCEPT ![t] = Acked(NewTask("command", u))]
    /\ events' = events + 1
    /\ UNCHANGED <<userContexts, homeViews, modals>>

\* lines 287-322: build the blocks, issue respond and suspend
CommandRespond(task) ==
    [task EXCEPT !.pc = "await_respond",
                 !.effects = Append(@, "respond"),
                 !.call = Call("respond", CommandResponse)]

\* CommandAfterAck that creates the session entry of its user on first use
CommandAfterAckCreatesSession(t, ok) ==
    /\ tasks[t].kind = "command"
    /\ tasks[t].pc = "await_ack"
    /\ tasks' = [tasks EXCEPT ![t] =
                    IF ok THEN CommandRespond(@)
                    ELSE Caught(@, "Error handling slash command:")]
    /\ userContexts' = MapSet(userContexts, tasks[t].user,
                              MapGetOrEmpty(userContexts, tasks[t].user))
    /\ UNCHANGED <<homeViews, modals, events>>

CommandAfterAck(t, ok) ==
    /\ tasks[t].kind = "command"
    /\ tasks[t].pc = "await_ack"
    /\ tasks' = [tasks EXCEPT ![t] =
                    IF ok THEN CommandRespond(@)
                    ELSE Caught(@, "Error handling slash command:")]
    /\ UNCHANGED <<userContexts, homeViews, modals, events>>

RespondSettled(t, ok) ==
    /\ tasks[t].pc = "await_respond"
    /\ tasks' = [tasks EXCEPT ![t] =
                    IF ok THEN [@ EXCEPT !.pc = "done"]
                    ELSE Caught(@, "Error handling slash command:")]
    /\ UNCHANGED <<userContexts, homeViews, modals, events>>

----------------------------------------------------------------------------

\* the promise of a handler that has reached its end resolves; its frame is gone
HandlerReturn(t) ==
    /\ tasks[t].pc = "done"
    /\ tasks' = [tasks EXCEPT ![t] = IdleTask]
    /\ UNCHANGED <<userContexts, homeViews, modals, events>>

Slots == DOMAIN tasks

\* a platform event arrives: one of the five handlers is entered, with inputs drawn
\* from the given sets
Dispatch(users, industries, categories, queries, foreign) ==
    /\ process.phase = "running"
    /\ UNCHANGED boot
    /\ \/ \E t \in Slots, u \in users, v \in industries : SelectIndustryStart(t, u, v)
       \/ \E t \in Slots, u \in users : HomeOpened(t, u)
       \/ \E t \in Slots, u \in users, c \in categories : CategoryStart(t, u, c)
       \/ \E t \in Slots, u \in users, q \in queries :
             \E meta \in SubmittableMetadata(u) \ (ForeignMetadata \ foreign) :
                ModalSubmitStart(t, u, meta, q)
       \/ \E t \in Slots, u \in users : CommandStart(t, u)

\* a suspended handler resumes because the promise it awaits has settled, or a
\* finished handler returns
Resume ==
    /\ process.phase = "running"
    /\ UNCHANGED boot
    /\ \/ \E t \in Slots, ok \in BOOLEAN : SelectIndustryAfterAck(t, ok)
       \/ \E t \in Slots, ok \in BOOLEAN : PublishSettled(t, ok)
       \/ \E t \in Slots, ok \in BOOLEAN : CategoryAfterAck(t, ok)
       \/ \E t \in Slots, ok \in BOOLEAN : OpenSettled(t, ok)
       \/ \E t \in Slots, ok \in BOOLEAN : ModalSubmitAfterAck(t, ok)
       \/ \E t \in Slots, outcome \in ApiOutcomes : CompletionSettled(t, outcome)
       \/ \E t \in Slots, ok \in BOOLEAN : PostSettled(t, ok)
       \/ \E t \in Slots, ok \in BOOLEAN : CommandAfterAck(t, ok)
       \/ \E t \in Slots, ok \in BOOLEAN : RespondSettled(t, ok)
       \/ \E t \in Slots : HandlerReturn(t)

\* no handler is running
Quiescent == \A t \in Slots : tasks[t].kind = "idle"

\* Events arrive one at a time, each after the previous handler has returned; the
\* inputs range over every user, industry, category, query and foreign metadata.
NextSeq ==
    \/ Startup
    \/ Quiescent /\ Dispatch(Users, DOMAIN INDUSTRIES, DOMAIN CATEGORIES, Queries, ForeignMetadata)
    \/ Resume

SpecSeq == Init /\ [][NextSeq]_vars

\* Events arrive at any time, also while other handlers are suspended, so handlers
\* interleave at their awaits; the inputs range over both users, the first and the
\* last industry, the first and the last category, one query, and two foreign metadata.
InterleavedIndustries == {IndustryKeys[1], IndustryKeys[Len(IndustryKeys)]}
InterleavedCategories == {CategoryKeys[1], CategoryKeys[Len(CategoryKeys)]}
InterleavedQueries == {"query one"}
InterleavedForeign == {<<>>, <<Punct("{"), Punct("}")>>}

Next ==
    \/ Startup
    \/ /\ events < MaxInterleaved
       /\ Dispatch(Users, InterleavedIndustries, InterleavedCategories,
                   InterleavedQueries, InterleavedForeign)
    \/ Resume

Spec == Init /\ [][Next]_vars

----------------------------------------------------------------------------
(* Properties *)

\* the handler in slot t takes a step: it is entered, resumes, or returns
Steps(t) == tasks'[t] # tasks[t]

\* the kind and the user of the handler that steps in slot t
StepKind(t) == IF tasks[t].kind = "idle" THEN tasks'[t].kind ELSE tasks[t].kind
StepUser(t) == IF tasks[t].kind = "idle" THEN tasks'[t].user ELSE tasks[t].user

\* C1: every step of a category handler (any of the 4 categories) taken while its
\* user has no industry in the session store (no entry, or an entry without industry)
\* leaves the session store untouched, issues no views.open, shows no modal, and
\* publishes nothing.
C1_CategoryWithoutIndustryIsNoOp ==
    [][\A t \in Slots :
          (Steps(t) /\ StepKind(t) = "category" /\ NoIndustry(userContexts, StepUser(t)))
          => /\ userContexts' = userContexts
             /\ modals' = modals
             /\ homeViews' = homeViews
             /\ tasks'[t].call = NoCall
             /\ tasks'[t].pc \in {"await_ack", "done", "idle"}
             /\ "open" \notin Range(tasks'[t].effects)]_vars

\* a category handler has read the session of a user without industry and returned
C1_Witness ==
    \E t \in Slots :
        /\ tasks[t].kind = "category"
        /\ tasks[t].category = "sales"
        /\ tasks[t].pc = "done"
        /\ tasks[t].effects = <<"ack", "session_read">>
        /\ NoIndustry(userContexts, tasks[t].user)
        /\ \E u \in Users : ~NoIndustry(userContexts, u)

\* what the modal-submit handler holds after line 258 when it is given this metadata
ParsedBySubmit(u, meta) ==
    ModalSubmitParse([Acked(NewTask("modal_submit", u)) EXCEPT !.metadata = meta])

\* C2: whenever a category handler (category C) of a user whose session industry is
\* I has issued views.open, the modal-submit handler given that modal's
\* private_metadata destructures exactly industry I and category C; and every submit
\* handler that has parsed the metadata of an opened modal holds an industry of the 8
\* and a category of the 4 that serialize back to exactly that metadata.
C2_MetadataRoundTrip ==
    /\ \A t \in Slots :
          (tasks[t].kind = "category" /\ tasks[t].call.api = "views.open")
          => LET back == ParsedBySubmit(tasks[t].user, tasks[t].call.args.private_metadata)
             IN /\ back.pc = "await_completion"
                /\ back.industry = userContexts[tasks[t].user].industry
                /\ back.industry \in DOMAIN INDUSTRIES
                /\ back.category = tasks[t].category
    /\ \A t \in Slots :
          (/\ tasks[t].kind = "modal_submit"
           /\ tasks[t].request # NoRequest
           /\ tasks[t].metadata \notin ForeignMetadata)
          => /\ tasks[t].industry \in DOMAIN INDUSTRIES
             /\ tasks[t].category \in DOMAIN CATEGORIES
             /\ tasks[t].metadata =
                   JSONStringify([industry |-> tasks[t].industry,
                                  category |-> tasks[t].category],
                                 <<"industry", "category">>)

\* a submit handler has parsed the metadata of a modal opened for restaurant / sales
C2_Witness ==
    \E t \in Slots :
        /\ tasks[t].kind = "modal_submit"
        /\ tasks[t].pc = "await_completion"
        /\ tasks[t].metadata \notin ForeignMetadata
        /\ tasks[t].industry = "restaurant"
        /\ tasks[t].category = "sales"

\* C3: once the industry handler of user U with value V has written the session and
\* issued its publish, U's session industry is V and the published home view (the
\* latest one issued for U) has exactly 5 blocks: the last holds exactly the 4
\* category buttons in the declared order of CATEGORIES, no other block holds a
\* button, and the section before it shows the display name of V.
C3_IndustrySelectionShowsCategories ==
    \A t \in Slots :
        (tasks[t].kind = "select_industry" /\ tasks[t].call.api = "views.publish")
        => LET u == tasks[t].user
               v == tasks[t].industry
               blocks == tasks[t].call.args.view.blocks
           IN /\ MapHas(userContexts, u)
              /\ userContexts[u].industry = v
              /\ tasks[t].call.args.user_id = u
              /\ homeViews[u] = tasks[t].call.args
              /\ Len(blocks) = 5
              /\ Len(blocks[5].elements) = 4
              /\ \A i \in 1..4 :
                    /\ blocks[5].elements[i].type = "button"
                    /\ blocks[5].elements[i].value = CategoryKeys[i]
                    /\ blocks[5].elements[i].action_id = "category_" \o CategoryKeys[i]
                    /\ blocks[5].elements[i].text.text = <<CATEGORIES[CategoryKeys[i]]>>
              /\ \A i \in 1..4 : \A e \in Range(blocks[i].elements) : e.type # "button"
              /\ blocks[4].type = "section"
              /\ INDUSTRIES[v] \in Range(blocks[4].text.text)

\* the industry handler of U2 has published after writing medical, U1 having chosen
\* another industry before
C3_Witness ==
    \E t \in Slots :
        /\ tasks[t].kind = "select_industry"
        /\ tasks[t].user = "U2"
        /\ tasks[t].industry = "medical"
        /\ tasks[t].pc = "done"
        /\ tasks[t].call.api = "views.publish"
        /\ MapHas(userContexts, "U1")
        /\ userContexts["U1"].industry = "retail"

\* C4: the home view a home-opened handler has published for a user without a session
\* entry has exactly the 3 base blocks: one industry selector whose 8 options are the
\* 8 industries in declared order with their display names, and no category section
\* (no button, no selected-industry label).
C4_FreshUserSeesOnlyIndustries ==
    \A t \in Slots :
        (tasks[t].kind = "app_home_opened" /\ ~MapHas(userContexts, tasks[t].user))
        => LET blocks == tasks[t].call.args.view.blocks
           IN /\ tasks[t].call.api = "views.publish"
              /\ tasks[t].call.args.user_id = tasks[t].user
              /\ Len(blocks) = 3
              /\ \A i \in 1..2 : blocks[i].elements = <<>>
              /\ Len(blocks[3].elements) = 1
              /\ blocks[3].elements[1].type = "static_select"
              /\ blocks[3].elements[1].action_id = "select_industry"
              /\ Len(blocks[3].elements[1].options) = 8
              /\ \A i \in 1..8 :
                    /\ blocks[3].elements[1].options[i].value = IndustryKeys[i]
                    /\ blocks[3].elements[1].options[i].text.text
                          = <<INDUSTRIES[IndustryKeys[i]]>>
              /\ Cardinality({blocks[3].elements[1].options[i].value : i \in 1..8}) = 8
              /\ \A b \in Range(blocks) :
                    /\ \A e \in Range(b.elements) : e.type # "button"
                    /\ "*Sentaku sareta gyoushu: " \notin Range(b.text.text)

\* a home-opened handler has published for U2, who has no entry, while U1 has one
C4_Witness ==
    \E t \in Slots :
        /\ tasks[t].kind = "app_home_opened"
        /\ tasks[t].user = "U2"
        /\ tasks[t].pc = "done"
        /\ ~MapHas(userContexts, "U2")
        /\ MapHas(userContexts, "U1")

\* C5: a submit handler whose metadata carried an industry I of the 8 and a category C
\* of the 4 has called the completion client with exactly two messages: a system
\* message containing the display labels of I and C, and a user message whose content
\* is the query text Q and nothing else; and once the client has returned a text, the
\* message posted goes to the submitting user, carries that text as its text, and its
\* block contains that text and the display labels of I and C.
C5_SubmitPromptsAndPosts ==
    \A t \in Slots :
        (/\ tasks[t].kind = "modal_submit"
         /\ tasks[t].request # NoRequest
         /\ tasks[t].industry \in DOMAIN INDUSTRIES
         /\ tasks[t].category \in DOMAIN CATEGORIES)
        => LET task == tasks[t]
               iLabel == INDUSTRIES[task.industry]
               cLabel == CATEGORIES[task.category]
               returned == task.completion.choices[1].message.content
               body == task.call.args.blocks[1].text.text
           IN /\ Len(task.request.messages) = 2
              /\ task.request.messages[1].role = "system"
              /\ iLabel \in Range(task.request.messages[1].content)
              /\ cLabel \in Range(task.request.messages[1].content)
              /\ task.request.messages[2] = [role |-> "user", content |-> <<task.query>>]
              /\ task.query \in Queries
              /\ (task.completion.settled = "resolved"
                  /\ Len(task.completion.choices) > 0
                  /\ returned # Undefined)
                 => /\ task.call.api = "chat.postMessage"
                    /\ task.call.args.channel = task.user
                    /\ task.call.args.text = returned
                    /\ Len(task.call.args.blocks) = 1
                    /\ returned \in Range(body)
                    /\ iLabel \in Range(body)
                    /\ cLabel \in Range(body)

\* a submit for medical / hr with the second query has posted the returned answer
C5_Witness ==
    \E t \in Slots :
        /\ tasks[t].kind = "modal_submit"
        /\ tasks[t].industry = "medical"
        /\ tasks[t].category = "hr"
        /\ tasks[t].query = "query two"
        /\ tasks[t].pc = "done"
        /\ tasks[t].errors = <<>>
        /\ tasks[t].call.api = "chat.postMessage"
        /\ tasks[t].call.args.text = "AI answer"

\* C6: a submit handler whose completion call has failed (the call was rejected, or its
\* response is malformed: no choice, or a message without content) has posted a
\* message to its user whose text and block contain the fallback string, with nothing
\* propagated out of the handler.
C6_FailedCompletionPostsFallback ==
    \A t \in Slots :
        (/\ tasks[t].kind = "modal_submit"
         /\ tasks[t].completion # NoOutcome
         /\ \/ tasks[t].completion.settled = "rejected"
            \/ Len(tasks[t].completion.choices) = 0
            \/ tasks[t].completion.choices[1].message.content = Undefined)
        => /\ tasks[t].call.api = "chat.postMessage"
           /\ tasks[t].call.args.channel = tasks[t].user
           /\ tasks[t].call.args.text = FallbackText
           /\ FallbackText \in Range(tasks[t].call.args.blocks[1].text.text)
           /\ ~tasks[t].uncaught

\* C7: every step of a slash-command handler, whatever the session store holds and
\* whatever other handlers are suspended meanwhile, leaves the session store, the home
\* views and the modals as they are; the only call the handler issues besides its
\* acknowledgement is an ephemeral respond whose blocks carry the industry picker with
\* the 8 industries.
C7_CommandNeverTouchesSessions ==
    [][\A t \in Slots :
          (Steps(t) /\ StepKind(t) = "command")
          => /\ userContexts' = userContexts
             /\ homeViews' = homeViews
             /\ modals' = modals
             /\ tasks'[t].kind = "command"
                => /\ Range(tasks'[t].effects) \subseteq {"ack", "respond"}
                   /\ tasks'[t].call.api \in {"none", "respond"}
                   /\ tasks'[t].call.api = "respond"
                      => /\ tasks'[t].call.args.response_type = "ephemeral"
                         /\ \E b \in Range(tasks'[t].call.args.blocks) :
                               \E e \in Range(b.elements) :
                                  /\ e.type = "static_select"
                                  /\ [i \in DOMAIN e.options |-> e.options[i].value]
                                        = IndustryKeys]_vars

\* a command handler has responded while an industry handler of the same user, which
\* has written the session, is suspended on its publish
C7_Witness ==
    \E t, o \in Slots :
        /\ tasks[t].kind = "command"
        /\ tasks[t].pc = "await_respond"
        /\ tasks[t].call.api = "respond"
        /\ tasks[o].kind = "select_industry"
        /\ tasks[o].pc = "await_publish"
        /\ tasks[o].user = tasks[t].user
        /\ MapHas(userContexts, tasks[t].user)

\* C8 as stated: every handler, home-opened included, issues its acknowledgement
\* before any session read or write, publish, open, completion call, post or respond.
C8_EveryHandlerAcksFirst ==
    \A t \in Slots :
        tasks[t].effects # <<>> => tasks[t].effects[1] = "ack"

\* C8, amended: the handlers of the industry action, the category actions, the modal
\* submit and the slash command issue their acknowledgement as their first effect and
\* exactly once; the home-opened handler issues no acknowledgement at all and starts
\* with its session read and publish.
C8_InteractiveHandlersAckFirst ==
    \A t \in Slots :
        /\ tasks[t].kind \in {"select_industry", "category", "modal_submit", "command"}
           => /\ tasks[t].effects # <<>>
              /\ tasks[t].effects[1] = "ack"
              /\ \A i \in 2..Len(tasks[t].effects) : tasks[t].effects[i] # "ack"
        /\ tasks[t].kind = "app_home_opened"
           => /\ "ack" \notin Range(tasks[t].effects)
              /\ tasks[t].effects = <<"session_read", "publish">>

\* an industry handler has acknowledged, then read and written the session and
\* published, while a home-opened handler has published without acknowledging
C8_Witness ==
    \E t, o \in Slots :
        /\ tasks[t].kind = "select_industry"
        /\ tasks[t].effects = <<"ack", "session_read", "session_write", "session_read", "publish">>
        /\ tasks[o].kind = "app_home_opened"
        /\ tasks[o].pc = "await_publish"

\* the private_metadata of a submit cannot be deserialized: JSON.parse throws, or it
\* yields null, which cannot be destructured
Undeserializable(meta) == JSONParse(meta).kind \in {"error", "null"}

\* C9: every step of a submit handler whose private_metadata cannot be deserialized
\* leaves the session store and the home views as they are, and the handler issues no
\* completion call and no post, propagates nothing, and ends in its catch block.
C9_MalformedMetadataIsSilent ==
    [][\A t \in Slots :
          (Steps(t) /\ StepKind(t) = "modal_submit"
           /\ Undeserializable(IF tasks[t].kind = "idle"
                               THEN tasks'[t].metadata ELSE tasks[t].metadata))
          => /\ userContexts' = userContexts
             /\ homeViews' = homeViews
             /\ tasks'[t].kind = "modal_submit"
                => /\ tasks'[t].request = NoRequest
                   /\ tasks'[t].completion = NoOutcome
                   /\ tasks'[t].call = NoCall
                   /\ tasks'[t].effects = <<"ack">>
                   /\ ~tasks'[t].uncaught
                   /\ tasks'[t].pc \in {"await_ack", "done"}
                   /\ tasks'[t].pc = "done"
                      => tasks'[t].errors = <<"Error handling modal submission:">>]_vars

\* a submit with a truncated metadata has ended in the catch block, with a session
\* and an open modal in existence
C9_Witness ==
    \E t \in Slots :
        /\ tasks[t].kind = "modal_submit"
        /\ tasks[t].metadata = <<Punct("{"), Str("industry"), Punct(":")>>
        /\ tasks[t].pc = "done"
        /\ tasks[t].errors = <<"Error handling modal submission:">>
        /\ userContexts # EmptyMap
        /\ \E u \in Users : modals[u].open

\* C10: when the industry handler of user U writes a value V that U's session already
\* holds, the session store after the write equals the store before it, and the home
\* view it publishes equals the latest home view published for U before.
C10_ReselectionIsIdempotent ==
    [][\A t \in Slots :
          (/\ tasks[t].kind = "select_industry"
           /\ tasks[t].pc = "await_ack"
           /\ tasks'[t].pc = "await_publish"
           /\ MapHas(userContexts, tasks[t].user)
           /\ Prop(userContexts[tasks[t].user], "industry") = tasks[t].industry)
          => /\ userContexts' = userContexts
             /\ homeViews[tasks[t].user] # NoHomeView
             /\ tasks'[t].call.args = homeViews[tasks[t].user]
             /\ homeViews' = homeViews]_vars

\* the industry handler of U1 has written agriculture a second time, U2 holding
\* another industry, and a home-opened of U1 lies in between
C10_Witness ==
    \E t \in Slots :
        /\ tasks[t].kind = "select_industry"
        /\ tasks[t].user = "U1"
        /\ tasks[t].industry = "agriculture"
        /\ tasks[t].pc = "await_publish"
        /\ events = 4
        /\ MapHas(userContexts, "U2")
        /\ userContexts["U2"].industry = "service"

----------------------------------------------------------------------------
\* the required variables that hold no value: unset, or set to the empty string
AbsentConfig == {name \in Range(requiredEnvVars) : env[name] \in {Undefined, ""}}

\* C11: once the configuration check has run, if any of the four required values is
\* absent (for every non-empty subset of them) the process has exited with code 1
\* without ever starting the platform connection or handling an event, and the
\* diagnostic is the heading followed by one line for each absent value and no other
\* line; if all four are present the start of the connection has been issued.
C11_MissingConfigStopsStartup ==
    process.phase # "loading" =>
       IF AbsentConfig # {}
       THEN /\ process = Process("exited", "1")
            /\ events = 0
            /\ Len(diagnostics) = 1 + Cardinality(AbsentConfig)
            /\ diagnostics[1] = "Error: Missing required environment variables:"
            /\ Range(Tail(diagnostics)) = {"- " \o name : name \in AbsentConfig}
       ELSE \/ /\ process.phase \in {"starting", "running"}
               /\ diagnostics = <<>>
            \/ /\ process = Process("exited", "1")
               /\ diagnostics = <<"Error starting Bolt app:">>

\* two of the four values are absent, one unset and one empty, and the process exited
C11_Witness ==
    /\ process.phase = "exited"
    /\ env["SLACK_APP_TOKEN"] = Undefined
    /\ env["OPENAI_API_KEY"] = ""
    /\ Cardinality(AbsentConfig) = 2
    /\ Len(diagnostics) = 3

----------------------------------------------------------------------------
\* the step in which the handler in slot t performs the session write of line 181
WriteStep(t) ==
    /\ Steps(t)
    /\ "session_write" \in Range(tasks'[t].effects)
    /\ "session_write" \notin Range(tasks[t].effects)

\* records a session entry could hold before a merge: with or without an industry,
\* with or without a further field
SessionRecords == UNION {[d -> {"retail", "other"}] : d \in SUBSET {"industry", "note"}}

\* C12: the industry handler reads, merges and writes its user's record within one
\* step (the read and the write are issued back to back in the same segment), the
\* step leaves the record holding the handler's industry with every other field of
\* the record as it was, and leaves other users' records alone; the store changes in
\* no other step. So under every interleaving the stored industry is the one of the
\* write that ran last, and no write is lost. The merge itself keeps every other
\* field of any record it is given.
C12_IndustryMergeIsAtomic ==
    [][/\ \A t \in Slots :
             WriteStep(t) =>
                LET u == tasks[t].user
                    old == MapGetOrEmpty(userContexts, u)
                    n == Len(tasks[t].effects)
                IN /\ tasks[t].kind = "select_industry"
                   /\ SubSeq(tasks'[t].effects, n + 1, n + 2) = <<"session_read", "session_write">>
                   /\ MapHas(userContexts', u)
                   /\ DOMAIN userContexts' = DOMAIN userContexts \cup {u}
                   /\ Prop(userContexts'[u], "industry") = tasks[t].industry
                   /\ \A k \in DOMAIN old \ {"industry"} :
                         Prop(userContexts'[u], k) = old[k]
                   /\ \A w \in DOMAIN userContexts \ {u} : userContexts'[w] = userContexts[w]
       /\ userContexts' # userContexts => \E t \in Slots : WriteStep(t)
       /\ \A old \in SessionRecords, v \in InterleavedIndustries :
             LET merged == SetIndustry(MapSet(EmptyMap, "U1", old), "U1", v)["U1"]
             IN /\ merged.industry = v
                /\ DOMAIN merged = DOMAIN old \cup {"industry"}
                /\ \A k \in DOMAIN old \ {"industry"} : merged[k] = old[k]]_vars

\* two industry handlers of one user, with different selections, have both written
\* and are both suspended on their publish; the store holds one of the two values
C12_Witness ==
    /\ tasks[1].kind = "select_industry" /\ tasks[2].kind = "select_industry"
    /\ tasks[1].user = tasks[2].user
    /\ tasks[1].industry # tasks[2].industry
    /\ tasks[1].pc = "await_publish" /\ tasks[2].pc = "await_publish"
    /\ Prop(MapGetOrEmpty(userContexts, tasks[1].user), "industry") = tasks[1].industry
    /\ homeViews[tasks[1].user] = tasks[1].call.args

----------------------------------------------------------------------------
\* the step in which the handler in slot t catches a failed platform call (the
\* completion API is no platform call: its failure is logged by generateAIResponse)
CatchStep(t) ==
    /\ Steps(t)
    /\ Len(tasks'[t].errors) > Len(tasks[t].errors)
    /\ tasks'[t].errors[Len(tasks'[t].errors)] # "OpenAI API Error:"

\* C13: in every step, no handler lets an error escape; a step in which a platform
\* call of a handler fails (acknowledge, publish, open, post, respond) logs it, ends
\* that handler and leaves the process running, with the handler's return and, once
\* a slot is free, the dispatch of a further event still possible; a running process
\* never leaves the running phase; and the process exits only from the configuration
\* check with a value absent or from a failed start of the connection, before any
\* event was handled.
C13_HandlerFailuresAreContained ==
    [][/\ \A t \in Slots : ~tasks'[t].uncaught
       /\ \A t \in Slots :
             CatchStep(t) =>
                /\ tasks'[t].pc = "done"
                /\ process.phase = "running"
                /\ process' = process
                /\ (ENABLED HandlerReturn(t))'
       /\ process.phase = "running" => process' = process
       /\ (process.phase = "running" /\ FreeSlots # {} /\ events < MaxInterleaved)
             => ENABLED Dispatch(Users, InterleavedIndustries, InterleavedCategories,
                                 InterleavedQueries, InterleavedForeign)
       /\ (process'.phase = "exited" /\ process.phase # "exited") =>
             /\ events = 0
             /\ Quiescent
             /\ \/ process.phase = "loading" /\ AbsentConfig # {}
                \/ process.phase = "starting"]_vars

\* a publish failed and was logged by one handler, which has ended, while a second
\* handler, of the other user, is running beside it
C13_Witness ==
    /\ process.phase = "running"
    /\ tasks[1].pc = "done"
    /\ tasks[1].errors = <<"Error updating home tab:">>
    /\ tasks[2].pc = "await_publish"
    /\ tasks[2].user # tasks[1].user

----------------------------------------------------------------------------
\* C14: a submit handler has issued a completion call or a post only if its metadata
\* deserializes to an object carrying an industry of the 8 and a category of the 4.
C14_CompletionOnlyWithValidMetadata ==
    \A t \in Slots :
        (/\ tasks[t].kind = "modal_submit"
         /\ \/ "complete" \in Range(tasks[t].effects)
            \/ "post" \in Range(tasks[t].effects))
        => LET parsed == JSONParse(tasks[t].metadata)
           IN /\ parsed.kind = "object"
              /\ Prop(parsed.members, "industry") \in DOMAIN INDUSTRIES
              /\ Prop(parsed.members, "category") \in DOMAIN CATEGORIES

----------------------------------------------------------------------------
\* how often a handler has issued the call of the given name
Issued(task, name) == Cardinality({i \in DOMAIN task.effects : task.effects[i] = name})

ExternalCalls == {"complete", "publish", "open", "post", "respond"}

\* C15: a handler invocation (one triggering event) has issued the completion call at
\* most once, whether the call succeeded or failed, and each platform call (publish,
\* open, post, respond) at most once.
C15_NoCallIsRetried ==
    \A t \in Slots : \A name \in ExternalCalls : Issued(tasks[t], name) <= 1

\* a submit whose completion call was rejected and whose post then failed has ended
\* after exactly one completion call and one post
C15_Witness ==
    \E t \in Slots :
        /\ tasks[t].kind = "modal_submit"
        /\ tasks[t].pc = "done"
        /\ tasks[t].completion # NoOutcome
        /\ tasks[t].completion.settled = "rejected"
        /\ tasks[t].errors = <<"OpenAI API Error:", "Error handling modal submission:">>
        /\ tasks[t].effects = <<"ack", "complete", "post">>

----------------------------------------------------------------------------
\* C16: every step of a handler triggered by user A (industry action, category
\* action, modal submit, slash command, home opened), under any interleaving, leaves
\* the store's entry of every other user B as it was (absent stays absent, a record
\* stays the same record) and leaves B's home view as it was; and whenever a home
\* view is published for a user it is addressed to that user and is the rendering of
\* that user's own record alone.
C16_SessionsAreIndependent ==
    [][\A t \in Slots :
          Steps(t) =>
             /\ \A b \in Users \ {StepUser(t)} :
                   /\ MapHas(userContexts', b) <=> MapHas(userContexts, b)
                   /\ MapHas(userContexts, b) => userContexts'[b] = userContexts[b]
                   /\ homeViews'[b] = homeViews[b]
             /\ \A b \in Users :
                   homeViews'[b] # homeViews[b] =>
                      /\ b = StepUser(t)
                      /\ homeViews'[b] = HomeView(b, MapGetOrEmpty(userContexts', b))]_vars

\* handlers of two users, with different selections, have both written and
\* published; each user's record and home view show that user's own selection
C16_Witness ==
    /\ tasks[1].kind = "select_industry" /\ tasks[2].kind = "select_industry"
    /\ tasks[1].user # tasks[2].user
    /\ tasks[1].industry # tasks[2].industry
    /\ tasks[1].pc = "await_publish" /\ tasks[2].pc = "await_publish"
    /\ \A t \in Slots :
          /\ MapHas(userContexts, tasks[t].user)
          /\ userContexts[tasks[t].user].industry = tasks[t].industry
          /\ homeViews[tasks[t].user] = tasks[t].call.args

----------------------------------------------------------------------------
\* C17: every step of a home-opened handler leaves the session store exactly as it
\* was, creating no entry for a user without one; and the step in which the handler
\* is entered issues one views.publish, addressed to its user, whose view is the
\* rendering of that user's record as the store holds it at that moment (the
\* industry selector alone for a user without an entry), which becomes the user's
\* home view.
C17_HomeOpenedOnlyRepublishes ==
    [][\A t \in Slots :
          (Steps(t) /\ StepKind(t) = "app_home_opened") =>
             /\ userContexts' = userContexts
             /\ DOMAIN userContexts' = DOMAIN userContexts
             /\ tasks[t].kind = "idle" =>
                   LET u == tasks'[t].user
                       rendered == HomeView(u, MapGetOrEmpty(userContexts, u))
                   IN /\ tasks'[t].call = Call("views.publish", rendered)
                      /\ tasks'[t].effects = <<"session_read", "publish">>
                      /\ homeViews'[u] = rendered
                      /\ rendered.user_id = u
                      /\ rendered.view.blocks = HomeBlocks(MapGetOrEmpty(userContexts, u))
                      /\ ~MapHas(userContexts, u) => rendered.view.blocks = HomeBaseBlocks
             /\ tasks[t].kind # "idle" => homeViews' = homeViews]_vars

\* home was opened by a user without an entry while the other user has a record: the
\* handler has ended, the store still has no entry for its user, and the user's home
\* view is the one it published
C17_Witness ==
    \E t \in Slots :
        /\ tasks[t].kind = "app_home_opened"
        /\ tasks[t].pc = "done"
        /\ ~MapHas(userContexts, tasks[t].user)
        /\ DOMAIN userContexts # {}
        /\ homeViews[tasks[t].user] = tasks[t].call.args
        /\ Len(homeViews[tasks[t].user].view.blocks) = Len(HomeBaseBlocks)

----------------------------------------------------------------------------
\* C18: in every reachable state, for every user U for whom a home-view publish has
\* been issued, the most recently issued view is addressed to U and matches U's
\* session as it is now: without an industry in the session it is the three base
\* blocks with no category section; with industry V it is the base blocks followed by
\* the section naming V's display label and the four category buttons.
C18_LatestHomeViewMatchesSession ==
    \A u \in Users :
        homeViews[u] # NoHomeView =>
           LET blocks == homeViews[u].view.blocks
           IN /\ homeViews[u].user_id = u
              /\ homeViews[u] = HomeView(u, MapGetOrEmpty(userContexts, u))
              /\ IF NoIndustry(userContexts, u)
                 THEN blocks = HomeBaseBlocks
                 ELSE /\ Len(blocks) = 5
                      /\ SubSeq(blocks, 1, 3) = HomeBaseBlocks
                      /\ Interp(INDUSTRIES[userContexts[u].industry]) \in Range(blocks[4].text.text)
                      /\ \A v \in DOMAIN INDUSTRIES :
                            INDUSTRIES[v] # INDUSTRIES[userContexts[u].industry]
                            => Interp(INDUSTRIES[v]) \notin Range(blocks[4].text.text)
                      /\ blocks[5].elements = CategoryButtons

\* one user selected an industry and then another one while the first handler was
\* still suspended: the home view names the second industry, which the session holds
C18_Witness ==
    \E s, t \in Slots :
        /\ tasks[s].kind = "select_industry" /\ tasks[t].kind = "select_industry"
        /\ tasks[s].user = tasks[t].user
        /\ tasks[s].pc = "done" /\ tasks[t].pc = "done"
        /\ tasks[s].errors = <<>> /\ tasks[t].errors = <<>>
        /\ tasks[s].industry # tasks[t].industry
        /\ userContexts[tasks[t].user].industry = tasks[t].industry
        /\ homeViews[tasks[t].user] = tasks[t].call.args
        /\ homeViews[tasks[t].user] # tasks[s].call.args

----------------------------------------------------------------------------
\* the industry and category keys a submit's private_metadata carries
MetadataIndustry(task) == Prop(JSONParse(task.metadata).members, "industry")
MetadataCategory(task) == Prop(JSONParse(task.metadata).members, "category")

\* C19: every step of a modal-submit handler leaves the session store as it was; the
\* handler never issues a session read or write; and the completion request and the
\* posted message it has issued are built from the industry and category carried in
\* its modal's metadata (fixed when the modal was opened), whatever industry the
\* session holds by then.
C19_SubmitUsesOnlyMetadata ==
    [][\A t \in Slots :
          (Steps(t) /\ StepKind(t) = "modal_submit") =>
             LET task == tasks'[t]
             IN /\ userContexts' = userContexts
                /\ "session_read" \notin Range(task.effects)
                /\ "session_write" \notin Range(task.effects)
                /\ task.request # NoRequest =>
                      task.request = CompletionRequest(task.query,
                                                       Prop(INDUSTRIES, MetadataIndustry(task)),
                                                       Prop(CATEGORIES, MetadataCategory(task)))
                /\ task.call.api = "chat.postMessage" =>
                      task.call.args = AnswerMessage(task.user, MetadataIndustry(task),
                                                     MetadataCategory(task), task.response)]_vars

\* the user selected an industry, opened a modal, selected another industry and then
\* submitted the modal: the post is issued with the industry of the metadata while
\* the session holds the later selection
C19_Witness ==
    \E t \in Slots :
        /\ tasks[t].kind = "modal_submit"
        /\ tasks[t].pc = "await_post"
        /\ MetadataIndustry(tasks[t]) \in DOMAIN INDUSTRIES
        /\ MetadataCategory(tasks[t]) \in DOMAIN CATEGORIES
        /\ MapHas(userContexts, tasks[t].user)
        /\ userContexts[tasks[t].user].industry # MetadataIndustry(tasks[t])
        /\ tasks[t].industry = MetadataIndustry(tasks[t])
        /\ Interp(INDUSTRIES[MetadataIndustry(tasks[t])])
              \in Range(tasks[t].call.args.blocks[1].text.text)

----------------------------------------------------------------------------
\* C20: in every step, the store afterwards holds no record with a category field;
\* the store changes only in a step of an industry handler; no entry is removed; and
\* every user who had an industry before the step has one after it (a user with an
\* industry never returns to having none).
C20_OnlyIndustryIsEverStored ==
    [][/\ \A u \in DOMAIN userContexts' :
             /\ "category" \notin DOMAIN userContexts'[u]
             /\ Prop(userContexts'[u], "category") = Undefined
       /\ userContexts' # userContexts =>
             \E t \in Slots : Steps(t) /\ StepKind(t) = "select_industry"
       /\ DOMAIN userContexts \subseteq DOMAIN userContexts'
       /\ \A u \in Users :
             ~NoIndustry(userContexts, u) =>
                /\ ~NoIndustry(userContexts', u)
                /\ userContexts'[u].industry \in DOMAIN INDUSTRIES]_vars

\* a user selected an industry, opened a category modal and submitted it: the
\* handler has posted and ended, and the user's record is the industry alone
C20_Witness ==
    \E t \in Slots :
        /\ tasks[t].kind = "modal_submit"
        /\ tasks[t].pc = "done"
        /\ "post" \in Range(tasks[t].effects)
        /\ tasks[t].category \in DOMAIN CATEGORIES
        /\ MapHas(userContexts, tasks[t].user)
        /\ userContexts[tasks[t].user] = [industry |-> tasks[t].industry]

====
